---- MODULE Spec2Model ----
(***************************************************************************)
(* Traffic-incident pipeline of "Tarea 2": the processor                   *)
(* (processor/processor.py), the scraper's store writes                    *)
(* (scraper/scraper.py) and the API's Pig-results read path (api/api.py).  *)
(*                                                                         *)
(* Units.  Coordinates are integers in 1e-7 degree, times are integers in  *)
(* seconds.  A text is a sequence of one-character strings; category and   *)
(* key names are TLA+ strings.  A Python value that may be None is a set   *)
(* with at most one element: {} is None, {v} is v.                         *)
(***************************************************************************)
EXTENDS Integers, Sequences, FiniteSets, TLC

VARIABLES
    feed,       \* the incidents the Waze feed can deliver to the scraper, by name
    store,      \* traffic_incidents: the rows, as they were inserted, by name
    processed,  \* the incident_ids whose row has processed = TRUE
    now,        \* wall clock, seconds
    ticks,      \* the steps the clock has taken
    pc,         \* the processor's position inside process_data_pipeline
    batch,      \* raw_incidents fetched by the run in flight
    run,        \* the run in flight: its counters, the rows it exported, and the
                \* ids that were stored unprocessed but not fetched when it flagged
    redis,      \* Redis: key -> {} or {[value, expires]}
    files,      \* the Pig result files: cache key -> {} or {content}; the
                \* content is named by the incident_ids of the extract it was computed from
    api,        \* the last answer of GET /api/pig/results and when it was given
    hist,       \* history: what the runs so far dropped and admitted, how the
                \* last finished run ended, the invocations of the pipeline that
                \* have not returned, and what save_incident last returned
    val,        \* is_valid_incident applied to one record
    dup,        \* are_incidents_duplicate applied to one pair
    dedup,      \* remove_duplicates applied to one batch
    csv,        \* one exported row written and read back
    norm,       \* homogenize_incidents applied to one list of records
    exp,        \* export_for_pig_processing applied to one state of the store
    scr         \* the scraper inside scrape_and_store: the feed entries of the
                \* cycle still to save, saved_count, and the cycles begun

fnVars == <<val, dup, dedup, csv, norm, exp, scr>>
vars == <<feed, store, processed, now, ticks, pc, batch, run, redis, files, api, hist, val, dup, dedup, csv, norm, exp, scr>>

(***************************************************************************)
(* Python values                                                           *)
(***************************************************************************)
None == {}
Some(v) == {v}
Val(x) == CHOOSE v \in x : TRUE

\* datetime and str timestamps (a row read from the store holds a datetime)
Datetime(sec) == [kind |-> "datetime", sec |-> sec, text |-> ""]
IsoText(text) == [kind |-> "str", sec |-> 0, text |-> text]

\* bool(x) of the values a record field can hold
TruthyStr(x) == x # None /\ Val(x) # ""
TruthyNum(x) == x # None /\ Val(x) # 0
TruthyTs(x) == x # None /\ ~(Val(x).kind = "str" /\ Val(x).text = "")

IsSpace(c) == c = " "

RECURSIVE lstrip(_)
lstrip(s) == IF s # <<>> /\ IsSpace(Head(s)) THEN lstrip(Tail(s)) ELSE s

RECURSIVE rstrip(_)
rstrip(s) ==
    IF s # <<>> /\ IsSpace(s[Len(s)]) THEN rstrip(SubSeq(s, 1, Len(s) - 1)) ELSE s

\* str.strip()
strip(s) == rstrip(lstrip(s))

\* str.lower() on the category strings the feed and the store can hold
LowerTable == [t \in {"Accidente", "ACCIDENTE", "Atasco", "OTRO", "ATASCO", "Policia"} |->
                 CASE t = "Accidente" -> "accidente"
                   [] t = "ACCIDENTE" -> "accidente"
                   [] t = "Atasco" -> "atasco"
                   [] t = "ATASCO" -> "atasco"
                   [] t = "OTRO" -> "otro"
                   [] t = "Policia" -> "policia"]
lower(t) == IF t \in DOMAIN LowerTable THEN LowerTable[t] ELSE t

(***************************************************************************)
(* Configuration of TrafficDataProcessor                                   *)
(***************************************************************************)
duplicate_distance_threshold == 10000
duplicate_time_threshold == 300
LatMin == -338000000
LatMax == -332000000
LonMin == -710000000
LonMax == -703000000
MinDescriptionLen == 3
MaxAgeDays == 7
SecondsPerDay == 86400

Abs(x) == IF x < 0 THEN -x ELSE x

\* datetime.fromisoformat(text.replace('Z', '+00:00')) on the texts used here:
\* the seconds of the parsed time, or no value when it raises ValueError
IsoTable == [t \in {"2025-06-01T00:00:00Z", "2025-05-20T00:00:00Z"} |->
                IF t = "2025-06-01T00:00:00Z" THEN 1748736000 ELSE 1747699200]
fromisoformat(text) == IF text \in DOMAIN IsoTable THEN Some(IsoTable[text]) ELSE None

\* lines 120-122 / 163-169: the timestamp as a point in time
as_time(ts) == IF ts.kind = "str" THEN fromisoformat(ts.text) ELSE Some(ts.sec)

(***************************************************************************)
(* Validator                                                               *)
(***************************************************************************)
MissingRequired_without_type(incident) ==
    \/ ~TruthyStr(incident.incident_id)
    \/ ~TruthyNum(incident.latitude)
    \/ ~TruthyNum(incident.longitude)
    \/ ~TruthyTs(incident.timestamp)

\* lines 106-109: some required field is missing or falsy
MissingRequired(incident) ==
    \/ ~TruthyStr(incident.incident_id)
    \/ ~TruthyStr(incident.incident_type)
    \/ ~TruthyNum(incident.latitude)
    \/ ~TruthyNum(incident.longitude)
    \/ ~TruthyTs(incident.timestamp)

\* line 112
InBounds(lat, lon) == LatMin <= lat /\ lat <= LatMax /\ LonMin <= lon /\ lon <= LonMax

TimestampRejected_unparsed_as_now(ts, clock) ==
    LET t == as_time(ts) IN
    IF t = None THEN FALSE
    ELSE ((clock - Val(t)) \div SecondsPerDay) > MaxAgeDays

\* lines 119-128: TRUE when the record is rejected for its timestamp
\* (timedelta.days is the floor of the difference in days)
TimestampRejected(ts, clock) ==
    LET t == as_time(ts) IN
    IF t = None THEN TRUE
    ELSE ((clock - Val(t)) \div SecondsPerDay) > MaxAgeDays

is_valid_incident_without_length(incident, clock) ==
    IF MissingRequired(incident) THEN "False"
    ELSE IF ~InBounds(Val(incident.latitude), Val(incident.longitude)) THEN "False"
    ELSE IF incident.description = None THEN "AttributeError"
    ELSE IF TimestampRejected(Val(incident.timestamp), clock) THEN "False"
    ELSE "True"

\* "True", "False", or "AttributeError" when description is None (line 115)
is_valid_incident(incident, clock) ==
    IF MissingRequired(incident) THEN "False"
    ELSE IF ~InBounds(Val(incident.latitude), Val(incident.longitude)) THEN "False"
    ELSE IF incident.description = None THEN "AttributeError"
    ELSE IF Len(strip(Val(incident.description))) < MinDescriptionLen THEN "False"
    ELSE IF TimestampRejected(Val(incident.timestamp), clock) THEN "False"
    ELSE "True"

(***************************************************************************)
(* Deduplicator                                                            *)
(***************************************************************************)
are_incidents_duplicate_strict(inc1, inc2) ==
    LET t1 == as_time(Val(inc1.timestamp))
        t2 == as_time(Val(inc2.timestamp))
    IN
    /\ Val(inc1.incident_type) = Val(inc2.incident_type)
    /\ Abs(Val(inc1.latitude) - Val(inc2.latitude)) < duplicate_distance_threshold
    /\ Abs(Val(inc1.longitude) - Val(inc2.longitude)) < duplicate_distance_threshold
    /\ t1 # None /\ t2 # None
    /\ Abs(Val(t1) - Val(t2)) < duplicate_time_threshold

are_incidents_duplicate_ignoring_case(inc1, inc2) ==
    LET t1 == as_time(Val(inc1.timestamp))
        t2 == as_time(Val(inc2.timestamp))
    IN
    IF lower(Val(inc1.incident_type)) # lower(Val(inc2.incident_type)) THEN FALSE
    ELSE IF \/ Abs(Val(inc1.latitude) - Val(inc2.latitude)) > duplicate_distance_threshold
            \/ Abs(Val(inc1.longitude) - Val(inc2.longitude)) > duplicate_distance_threshold
         THEN FALSE
    ELSE IF t1 = None \/ t2 = None THEN FALSE
    ELSE IF Abs(Val(t1) - Val(t2)) > duplicate_time_threshold THEN FALSE
    ELSE TRUE

\* lines 152-177
are_incidents_duplicate(inc1, inc2) ==
    LET t1 == as_time(Val(inc1.timestamp))
        t2 == as_time(Val(inc2.timestamp))
    IN
    IF Val(inc1.incident_type) # Val(inc2.incident_type) THEN FALSE
    ELSE IF \/ Abs(Val(inc1.latitude) - Val(inc2.latitude)) > duplicate_distance_threshold
            \/ Abs(Val(inc1.longitude) - Val(inc2.longitude)) > duplicate_distance_threshold
         THEN FALSE
    ELSE IF t1 = None \/ t2 = None THEN FALSE
    ELSE IF Abs(Val(t1) - Val(t2)) > duplicate_time_threshold THEN FALSE
    ELSE TRUE

\* the sort key x['timestamp'] (datetimes compare by their point in time)
TsKey(incident) == Val(incident.timestamp).sec

RECURSIVE InsertByTs(_, _)
InsertByTs(sortedSeq, x) ==
    IF sortedSeq = <<>> THEN <<x>>
    ELSE IF TsKey(sortedSeq[Len(sortedSeq)]) <= TsKey(x) THEN Append(sortedSeq, x)
    ELSE Append(InsertByTs(SubSeq(sortedSeq, 1, Len(sortedSeq) - 1), x),
                sortedSeq[Len(sortedSeq)])

\* sorted(incidents, key=lambda x: x['timestamp']): ascending and stable
RECURSIVE sorted_by_timestamp(_)
sorted_by_timestamp(incidents) ==
    IF incidents = <<>> THEN <<>>
    ELSE InsertByTs(sorted_by_timestamp(SubSeq(incidents, 1, Len(incidents) - 1)),
                    incidents[Len(incidents)])

\* on a duplicate, the incoming record takes the place of the admitted one
RECURSIVE dedup_loop_keep_latest(_, _)
dedup_loop_keep_latest(rest, deduplicated) ==
    IF rest = <<>> THEN deduplicated
    ELSE LET incident == Head(rest)
             hits == {i \in 1..Len(deduplicated) :
                         are_incidents_duplicate(incident, deduplicated[i])}
         IN dedup_loop_keep_latest(Tail(rest),
                IF hits # {}
                THEN [deduplicated EXCEPT ![CHOOSE i \in hits : \A j \in hits : i <= j]
                                              = incident]
                ELSE Append(deduplicated, incident))

\* the incoming record is compared with the last admitted one only
RECURSIVE dedup_loop_compares_last(_, _)
dedup_loop_compares_last(rest, deduplicated) ==
    IF rest = <<>> THEN deduplicated
    ELSE LET incident == Head(rest)
             is_duplicate == /\ deduplicated # <<>>
                             /\ are_incidents_duplicate(incident,
                                                        deduplicated[Len(deduplicated)])
         IN dedup_loop_compares_last(Tail(rest),
                                     IF is_duplicate THEN deduplicated
                                     ELSE Append(deduplicated, incident))

\* lines 139-148
RECURSIVE dedup_loop(_, _)
dedup_loop(rest, deduplicated) ==
    IF rest = <<>> THEN deduplicated
    ELSE LET incident == Head(rest)
             is_duplicate == \E i \in 1..Len(deduplicated) :
                                 are_incidents_duplicate(incident, deduplicated[i])
         IN dedup_loop(Tail(rest),
                       IF is_duplicate THEN deduplicated
                       ELSE Append(deduplicated, incident))

remove_duplicates_unsorted(incidents) == dedup_loop(incidents, <<>>)

remove_duplicates(incidents) ==
    IF incidents = <<>> THEN incidents
    ELSE dedup_loop(sorted_by_timestamp(incidents), <<>>)

(***************************************************************************)
(* Extract Exporter: one row written by DataFrame.to_csv and read back     *)
(***************************************************************************)
Quote == "\""
Comma == ","

\* str.replace('"', '""') (lines 271-272)
RECURSIVE replace_quotes(_)
replace_quotes(s) ==
    IF s = <<>> THEN <<>>
    ELSE IF Head(s) = Quote THEN <<Quote, Quote>> \o replace_quotes(Tail(s))
    ELSE <<Head(s)>> \o replace_quotes(Tail(s))

\* df.fillna('') (line 270)
fillna(x) == IF x = None THEN <<>> ELSE Val(x)

\* csv.writer, QUOTE_MINIMAL, as DataFrame.to_csv uses it (line 274): a field
\* holding the delimiter or the quote character is quoted, its quotes doubled
to_csv_field(s) ==
    IF \E i \in 1..Len(s) : s[i] \in {Quote, Comma}
    THEN <<Quote>> \o replace_quotes(s) \o <<Quote>>
    ELSE s

RECURSIVE join_fields(_)
join_fields(fields) ==
    IF Len(fields) = 1 THEN fields[1]
    ELSE fields[1] \o <<Comma>> \o join_fields(Tail(fields))

\* lines 269-274 on the description and street columns of one row
export_row(row) ==
    join_fields(<<to_csv_field(replace_quotes(fillna(row.description))),
                  to_csv_field(replace_quotes(fillna(row.street)))>>)

\* The reader of the artifact, which is not code of the processor: a CSV
\* reader (quoted fields, doubled-quote unescaping) on one line.
\* st: "start" of a field, "plain" field, "quoted" field, "quote" seen inside
\* a quoted field.
RECURSIVE csv_read(_, _, _, _)
csv_read(line, st, field, fields) ==
    IF line = <<>> THEN Append(fields, field)
    ELSE LET c == Head(line)
             rest == Tail(line)
         IN
         IF st = "quoted"
         THEN IF c = Quote THEN csv_read(rest, "quote", field, fields)
              ELSE csv_read(rest, "quoted", Append(field, c), fields)
         ELSE IF st = "quote" /\ c = Quote
         THEN csv_read(rest, "quoted", Append(field, Quote), fields)
         ELSE IF c = Comma THEN csv_read(rest, "start", <<>>, Append(fields, field))
         ELSE IF st = "start" /\ c = Quote THEN csv_read(rest, "quoted", field, fields)
         ELSE csv_read(rest, "plain", Append(field, c), fields)

parse_row(line) == csv_read(line, "start", <<>>, <<>>)

(***************************************************************************)
(* Normalizer                                                              *)
(***************************************************************************)
\* lines 182-190
type_mapping ==
    [t \in {"accidente", "atasco", "construccion", "peligro", "clima", "alerta", "otro"} |->
        CASE t = "accidente" -> "ACCIDENTE"
          [] t = "atasco" -> "ATASCO"
          [] t = "construccion" -> "CONSTRUCCION"
          [] t = "peligro" -> "PELIGRO"
          [] t = "clima" -> "CLIMA"
          [] t = "alerta" -> "ALERTA"
          [] t = "otro" -> "OTRO"]

\* the closed category set: the values of type_mapping (its default, OTRO, is one)
CategorySet == {type_mapping[t] : t \in DOMAIN type_mapping}

\* str.lower().strip() on the comuna strings the store can hold
ComunaKeyTable == [c \in {"Santiago", " Santiago ", "SANTIAGO", "Maipu", "Maipú",
                           "Región Metropolitana", " Quilicura", "  "} |->
                     CASE c = "Maipu" -> "maipu"
                       [] c = "Maipú" -> "maipú"
                       [] c = "Región Metropolitana" -> "región metropolitana"
                       [] c = " Quilicura" -> "quilicura"
                       [] c = "  " -> ""
                       [] OTHER -> "santiago"]
lower_strip(c) == IF c \in DOMAIN ComunaKeyTable THEN ComunaKeyTable[c] ELSE c

\* lines 192-203
comuna_mapping ==
    [c \in {"santiago", "las condes", "providencia", "ñuñoa", "maipú", "maipu",
            "la florida", "puente alto", "peñalolén", "penalolen"} |->
        CASE c = "santiago" -> "Santiago"
          [] c = "las condes" -> "Las Condes"
          [] c = "providencia" -> "Providencia"
          [] c = "ñuñoa" -> "Ñuñoa"
          [] c \in {"maipú", "maipu"} -> "Maipú"
          [] c = "la florida" -> "La Florida"
          [] c = "puente alto" -> "Puente Alto"
          [] c \in {"peñalolén", "penalolen"} -> "Peñalolén"]

MaxSeverity == 10
SeverityDivisor == 10
CoordinateStep == 10

\* round(x, 6) of a coordinate in 1e-7 degree: to the nearest multiple of
\* CoordinateStep, a tie going to the even one
round6(x) ==
    LET q == x \div CoordinateStep
        r == x - q * CoordinateStep
    IN IF 2 * r < CoordinateStep THEN q * CoordinateStep
       ELSE IF 2 * r > CoordinateStep THEN (q + 1) * CoordinateStep
       ELSE IF q % 2 = 0 THEN q * CoordinateStep ELSE (q + 1) * CoordinateStep

Min(a, b) == IF a < b THEN a ELSE b

\* lines 207-232 raise for a record one of whose fields read there is None
\* (None.lower(), None.strip(), None > 10); the except of line 237 skips it
homogenize_raises(incident) ==
    \/ incident.incident_type = None
    \/ incident.comuna = None
    \/ incident.description = None
    \/ incident.severity = None
    \/ incident.street = None
    \/ incident.city = None

standardized_type_passthrough(raw) ==
    IF lower(raw) \in DOMAIN type_mapping THEN type_mapping[lower(raw)] ELSE raw

\* lines 207-208
standardized_type(raw) ==
    IF lower(raw) \in DOMAIN type_mapping THEN type_mapping[lower(raw)] ELSE "OTRO"

standardized_comuna_trimmed(raw) ==
    IF lower_strip(raw) \in DOMAIN comuna_mapping THEN comuna_mapping[lower_strip(raw)]
    ELSE lower_strip(raw)

\* lines 210-211
standardized_comuna(raw) ==
    IF lower_strip(raw) \in DOMAIN comuna_mapping THEN comuna_mapping[lower_strip(raw)]
    ELSE raw

\* the text of f"Incidente de tipo {standardized_type}" (line 215): the fixed
\* words and the tag
placeholder(tag) ==
    <<"Incidente de tipo ", tag>>

normalized_description_without_placeholder(raw, tag) ==
    strip(raw)

\* lines 213-215
normalized_description(raw, tag) ==
    IF strip(raw) = <<>> THEN placeholder(tag) ELSE strip(raw)

rescaled_severity_uncapped(severity) ==
    IF severity > MaxSeverity THEN severity \div SeverityDivisor ELSE severity

rescaled_severity_from_ten(severity) ==
    IF severity >= MaxSeverity THEN Min(severity \div SeverityDivisor, MaxSeverity)
    ELSE severity

\* lines 217-219
rescaled_severity(severity) ==
    IF severity > MaxSeverity THEN Min(severity \div SeverityDivisor, MaxSeverity)
    ELSE severity

\* lines 207-233, for a record that does not raise
homogenize_one(incident) ==
    [incident_id |-> incident.incident_id,
     incident_type |-> Some(standardized_type(Val(incident.incident_type))),
     description |-> Some(normalized_description(
                              Val(incident.description),
                              standardized_type(Val(incident.incident_type)))),
     latitude |-> Some(round6(Val(incident.latitude))),
     longitude |-> Some(round6(Val(incident.longitude))),
     street |-> Some(strip(Val(incident.street))),
     city |-> Some(strip(Val(incident.city))),
     comuna |-> Some(standardized_comuna(Val(incident.comuna))),
     severity |-> Some(rescaled_severity(Val(incident.severity))),
     timestamp |-> incident.timestamp,
     source |-> incident.source]

\* lines 205-241
RECURSIVE homogenize_incidents(_)
homogenize_incidents(incidents) ==
    IF incidents = <<>> THEN <<>>
    ELSE IF homogenize_raises(Head(incidents)) THEN homogenize_incidents(Tail(incidents))
    ELSE <<homogenize_one(Head(incidents))>> \o homogenize_incidents(Tail(incidents))

(***************************************************************************)
(* Inputs of the function-level specifications                             *)
(***************************************************************************)
Row(id, type, desc, lat, lon, sev, ts) ==
    [incident_id |-> id, incident_type |-> type, description |-> desc,
     latitude |-> lat, longitude |-> lon, street |-> Some(<<>>), city |-> Some(<<>>),
     comuna |-> Some("Santiago"), severity |-> sev, timestamp |-> ts,
     source |-> Some("waze")]

BaseLat == LatMin + 3500000
BaseLon == LonMin + 3500000
ValNow == 1748779200
MaxBatch == 3
MaxLen == 2

Off == [pc |-> "off"]

Text3 == <<"a", "b", "c">>

ValDescriptions ==
    {None, Some(<<>>), Some(<<" ", " ">>), Some(<<"a", "b">>),
     Some(<<" ", "a", "b", " ">>), Some(Text3), Some(<<" ">> \o Text3 \o <<" ">>)}

ValAges == {-3600, 0, MaxAgeDays * SecondsPerDay,
            MaxAgeDays * SecondsPerDay + 43200,
            (MaxAgeDays + 1) * SecondsPerDay - 1,
            (MaxAgeDays + 1) * SecondsPerDay,
            (MaxAgeDays + 2) * SecondsPerDay}

ValTimestamps ==
    {None, Some(IsoText("")), Some(IsoText("2025-06-01T00:00:00Z")),
     Some(IsoText("2025-05-20T00:00:00Z")), Some(IsoText("ayer"))}
    \cup {Some(Datetime(ValNow - a)) : a \in ValAges}

ValInputs ==
    {Row(id, type, desc, lat, lon, Some(2), ts) :
        id \in {None, Some(""), Some("i1")},
        type \in {None, Some(""), Some("accidente")},
        desc \in ValDescriptions,
        lat \in {None, Some(0), Some(LatMin - 1), Some(LatMin), Some(BaseLat),
                 Some(LatMax), Some(LatMax + 1)},
        lon \in {None, Some(LonMin - 1), Some(LonMin), Some(LonMax), Some(LonMax + 1)},
        ts \in ValTimestamps}

DupOffsets == {0, 1, duplicate_distance_threshold, duplicate_distance_threshold + 1}
DupTimes == {0, 1, duplicate_time_threshold, duplicate_time_threshold + 1}

DupInputs ==
    {Row(Some("i"), Some(type), Some(Text3), Some(BaseLat + dlat), Some(BaseLon + dlon),
         Some(2), Some(Datetime(ValNow + dt))) :
        type \in {"accidente", "Accidente", "atasco"},
        dlat \in DupOffsets,
        dlon \in DupOffsets \ {1},
        dt \in DupTimes}

\* the records of a batch: two types, one of them in two spellings, two
\* places one threshold apart, three times one threshold apart; the id names
\* the fields, as generate_incident_id does
DedupRecords ==
    {Row(Some(<<type, k, j>>), Some(type), Some(Text3),
         Some(BaseLat + k * duplicate_distance_threshold), Some(BaseLon),
         Some(2), Some(Datetime(ValNow + j * duplicate_time_threshold))) :
        type \in {"accidente", "Accidente", "atasco"}, k \in 0..1, j \in 0..2}

Range(s) == {s[i] : i \in 1..Len(s)}

\* the batches of at most n distinct records
RECURSIVE Batches(_, _)
Batches(records, n) ==
    IF n = 0 THEN {<<>>}
    ELSE LET shorter == Batches(records, n - 1) IN
         shorter \cup {Append(b, r) : b \in {x \in shorter : Len(x) = n - 1},
                                      r \in records}

DistinctBatches(records, n) ==
    {b \in Batches(records, n) : Cardinality(Range(b)) = Len(b)}

CsvChars == {"a", Comma, Quote}

RECURSIVE Texts(_)
Texts(n) ==
    IF n = 0 THEN {<<>>}
    ELSE Texts(n - 1) \cup {Append(t, c) : t \in {x \in Texts(n - 1) : Len(x) = n - 1},
                                            c \in CsvChars}

CsvInputs ==
    {[description |-> d, street |-> s] :
        d \in {None} \cup {Some(t) : t \in Texts(MaxLen)},
        s \in {Some(t) : t \in Texts(MaxLen)}}

NormTypes == {"accidente", "Accidente", "ACCIDENTE", "atasco", "policia", "Policia", "otro", ""}
NormComunas == {"Santiago", " Santiago ", "SANTIAGO", "Maipu", "Región Metropolitana",
                " Quilicura", "  ", ""}
NormDescriptions == {<<>>, <<" ">>, Text3, <<" ", "a", " ">>}
NormSeverities == {-1, 0, 5, 10, 11, 47, 99, 100, 109, 110, 999}

NormRecord(type, comuna, desc, sev) ==
    [Row(Some("i"), Some(type), desc, Some(BaseLat), Some(BaseLon), sev,
         Some(Datetime(ValNow)))
     EXCEPT !.comuna = comuna]

\* one record of every combination of the fields the normalizer rewrites; the
\* optional ones (description, comuna, severity) can be NULL in the store
NormInputs ==
    {NormRecord(type, comuna, desc, sev) :
        type \in NormTypes,
        comuna \in {None} \cup {Some(c) : c \in NormComunas},
        desc \in {None} \cup {Some(d) : d \in NormDescriptions},
        sev \in {None} \cup {Some(n) : n \in NormSeverities}}

\* the records of the lists of two
NormPairRecords ==
    {NormRecord("accidente", Some("Santiago"), Some(Text3), Some(47)),
     NormRecord("atasco", None, Some(Text3), Some(2)),
     NormRecord("atasco", Some("Maipu"), Some(Text3), None),
     NormRecord("policia", Some("Maipu"), None, Some(2))}

NormLists ==
    {<<>>} \cup {<<r>> : r \in NormInputs}
    \cup {<<a, b>> : a \in NormPairRecords, b \in NormPairRecords}

(***************************************************************************)
(* The store, the cache and the processes around them                      *)
(***************************************************************************)
AnalysisTTL == 3600
LastUpdateTTL == 3600
ReportTTL == 3600
PigResultsTTL == 900
TriggerTTL == 300
ExportLimit == 10000

\* the output files of the Pig script, by cache key (lines 323-328)
PigKeys == {"comuna_counts", "type_counts", "hourly_counts", "hotspots"}

TickStep == 600
MaxTicks == 2

\* the amounts of time a step of the clock takes
TickSteps == {TickStep, AnalysisTTL - TickStep}

\* the sets of result files one run of the engine can leave behind
WrittenChoices == {PigKeys, PigKeys \ {"hotspots"}, {"hotspots"}, {}}

\* the cache writes of one run that can raise: none, one result key, all of
\* them and last_update (Redis is down)
CacheFailChoices == {{}, {"hotspots"}, PigKeys \cup {"last_update"}}

AnalysisKey(k) == <<"analysis", k>>
IncidentKey(id) == <<"incident", id>>
IncidentTTL == 3600
ScraperTTL == 3600
MaxCycles == 2
RedisKeys == {AnalysisKey(k) : k \in PigKeys}
             \cup {<<"analysis", "last_update">>, <<"processing", "last_report">>,
                   <<"pig", "results">>, <<"trigger", "processing">>,
                   <<"scraper", "last_run">>, <<"scraper", "incidents_saved">>}
             \cup {IncidentKey(id) : id \in {"A", "B", "C", "E", "N", "D", "S"}}

\* what process_incident can hand to save_incident, by name: an accident, a
\* second report of it 100 s later and one threshold away, a report of a
\* category type_mapping does not know with a large severity, a report whose
\* description is too short, and two reports whose feed entry holds a JSON
\* null: "severity": null and "reportDescription": null; and the accident
\* delivered again with another description (generate_incident_id hashes
\* place, type and time only, so it has the same incident_id); and a report
\* without reportDescription, whose description is the empty string
Incident ==
    [name \in {"a", "b", "c", "e", "n", "d", "r", "s"} |->
        CASE name = "a" ->
                 Row(Some("A"), Some("accidente"), Some(Text3), Some(BaseLat),
                     Some(BaseLon), Some(2), Some(Datetime(ValNow - 200)))
          [] name = "b" ->
                 Row(Some("B"), Some("accidente"), Some(Text3),
                     Some(BaseLat + duplicate_distance_threshold), Some(BaseLon),
                     Some(3), Some(Datetime(ValNow - 100)))
          [] name = "c" ->
                 Row(Some("C"), Some("policia"), Some(Text3), Some(BaseLat),
                     Some(BaseLon), Some(47), Some(Datetime(ValNow - 100)))
          [] name = "e" ->
                 Row(Some("E"), Some("atasco"), Some(<<"a", "b">>), Some(BaseLat),
                     Some(BaseLon), Some(1), Some(Datetime(ValNow)))
          [] name = "n" ->
                 Row(Some("N"), Some("peligro"), Some(Text3), Some(BaseLat),
                     Some(BaseLon), None, Some(Datetime(ValNow - 50)))
          [] name = "d" ->
                 Row(Some("D"), Some("clima"), None, Some(BaseLat),
                     Some(BaseLon), Some(1), Some(Datetime(ValNow - 50)))
          [] name = "r" ->
                 Row(Some("A"), Some("accidente"), Some(<<"a", "b", "c", "d">>),
                     Some(BaseLat), Some(BaseLon), Some(2), Some(Datetime(ValNow - 200)))
          [] name = "s" ->
                 Row(Some("S"), Some("alerta"), Some(<<>>), Some(BaseLat),
                     Some(BaseLon), Some(1), Some(Datetime(ValNow - 50)))]

Feed == {"a", "b", "r"}

IdOf(row) == Val(row.incident_id)
SeqIds(rows) == {IdOf(rows[i]) : i \in 1..Len(rows)}

\* the rows the names stand for
StoredIds == {IdOf(Incident[n]) : n \in store}
RowsOf(names) == [i \in 1..Len(names) |-> Incident[names[i]]]

\* the ways ORDER BY timestamp DESC can return a set of rows: rows of equal
\* timestamp come in any order
OrderedDesc(names) ==
    {b \in [1..Cardinality(names) -> names] :
        /\ Range(b) = names
        /\ \A i, j \in 1..Cardinality(names) :
               i < j => TsKey(Incident[b[i]]) >= TsKey(Incident[b[j]])}

\* the first n elements of a sequence (LIMIT n)
Limit(rows, n) == IF Len(rows) <= n THEN rows ELSE SubSeq(rows, 1, n)

ExportSelect_all_rows(names, flagged, n) ==
    {Limit(b, n) : b \in OrderedDesc(names)}

\* the results the SELECT of lines 250-259 can have on the rows `names` of
\* which those with an id in `flagged` have processed = TRUE
ExportSelect(names, flagged, n) ==
    {Limit(b, n) : b \in OrderedDesc({r \in names : IdOf(Incident[r]) \in flagged})}

\* redis: GET, SETEX, and the expiry of the keys whose time has come
Live(key) == redis[key] # None
Setex(r, key, ttl, value) ==
    [r EXCEPT ![key] = Some([value |-> value, expires |-> now + ttl])]
Expire(r, clock) ==
    [key \in DOMAIN r |->
        IF r[key] # None /\ Val(r[key]).expires <= clock THEN None ELSE r[key]]

IdleRun == [total |-> 0, filtered |-> 0, exported |-> <<>>, cache_errors |-> {},
            unfetched |-> {}]
NoResults == [k \in PigKeys |-> None]

PipelineInit(incidents) ==
    /\ feed = incidents
    /\ store = {}
    /\ processed = {}
    /\ now = ValNow
    /\ pc = "idle"
    /\ batch = <<>>
    /\ run = IdleRun
    /\ ticks = 0
    /\ redis = [key \in RedisKeys |-> None]
    /\ files = [k \in PigKeys |-> None]
    /\ api = [at |-> None, results |-> NoResults]
    /\ hist = [dropped |-> {}, admitted |-> {}, last |-> "none", inflight |-> 0,
               saved |-> "none"]

FunctionsOff ==
    val = Off /\ dup = Off /\ dedup = Off /\ csv = Off /\ norm = Off /\ exp = Off /\ scr = Off

\* the return of process_data_pipeline: at line 439 with "no data" (nothing
\* fetched, line 73, or nothing left to flag, line 97), "no connection"
\* (line 58) or "clean error" (line 101); at line 446 with "export failed";
\* at line 453 with "pig failed"; at line 475 with "completed"; at line 479
\* with "report error"; or the process died, "crashed"
Ended(how) == [hist EXCEPT !.last = how, !.inflight = @ - 1]

\* scraper.py save_incident (lines 420-454): INSERT ... ON CONFLICT DO NOTHING
SaveIncident_upsert ==
    \E incident \in feed :
        /\ store' = {n \in store : IdOf(Incident[n]) # IdOf(Incident[incident])}
                        \cup {incident}
        /\ processed' = processed \ {IdOf(Incident[incident])}
        /\ hist' = [hist EXCEPT !.saved = "inserted"]
        /\ UNCHANGED fnVars
        /\ UNCHANGED <<feed, now, ticks, pc, batch, run, redis, files, api>>

\* scraper.py save_incident (lines 420-454): INSERT ... ON CONFLICT DO NOTHING;
\* it returns rowcount > 0
SaveIncident ==
    \E incident \in feed :
        /\ store' = IF IdOf(Incident[incident]) \in StoredIds THEN store
                    ELSE store \cup {incident}
        /\ processed' = processed
        /\ hist' = [hist EXCEPT !.saved = IF IdOf(Incident[incident]) \in StoredIds
                                          THEN "conflict" ELSE "inserted"]
        /\ UNCHANGED fnVars
        /\ UNCHANGED <<feed, now, ticks, pc, batch, run, redis, files, api>>

\* time passes; Redis drops the keys that expire
Tick ==
    /\ ticks < MaxTicks
    /\ \E step \in TickSteps :
        /\ now' = now + step
        /\ redis' = Expire(redis, now + step)
    /\ ticks' = ticks + 1
    /\ UNCHANGED fnVars
    /\ UNCHANGED <<feed, store, processed, pc, batch, run, files, api, hist>>

StartPipeline_from_a_thread ==
    /\ hist.inflight < 2
    /\ pc' = "fetch"
    /\ run' = IdleRun
    /\ hist' = [hist EXCEPT !.inflight = @ + 1]
    /\ UNCHANGED fnVars
    /\ UNCHANGED <<feed, ticks, store, processed, now, batch, redis, files, api>>

\* the scheduler calls process_data_pipeline (lines 487-495): run_pending
\* calls the job in the loop's own thread, so the loop is back at run_pending
\* only when the job has returned
StartPipeline ==
    /\ pc = "idle"
    /\ pc' = "fetch"
    /\ run' = IdleRun
    /\ hist' = [hist EXCEPT !.inflight = @ + 1]
    /\ UNCHANGED fnVars
    /\ UNCHANGED <<feed, ticks, store, processed, now, batch, redis, files, api>>

\* filter_and_clean_data, lines 56-73: the SELECT of the unprocessed rows
FetchUnprocessed ==
    /\ pc = "fetch"
    /\ \E raw_incidents \in OrderedDesc({r \in store : IdOf(Incident[r]) \notin processed}) :
        /\ batch' = raw_incidents
        /\ pc' = IF raw_incidents = <<>> THEN "idle" ELSE "clean"
        /\ hist' = IF raw_incidents = <<>> THEN Ended("no data") ELSE hist
    /\ UNCHANGED fnVars
    /\ UNCHANGED <<feed, ticks, store, processed, now, run, redis, files, api>>

\* get_database_connection returns None (lines 56-58, 244-246)
ConnectFails ==
    /\ pc \in {"fetch", "export"}
    /\ pc' = "idle"
    /\ batch' = <<>>
    /\ run' = IdleRun
    /\ hist' = Ended(IF pc = "fetch" THEN "no connection" ELSE "export failed")
    /\ UNCHANGED fnVars
    /\ UNCHANGED <<feed, ticks, store, processed, now, redis, files, api>>

select_all(s, clock) == s

\* line 77: the records of the batch that is_valid_incident accepts
RECURSIVE select_valid(_, _)
select_valid(s, clock) ==
    IF s = <<>> THEN <<>>
    ELSE IF is_valid_incident(Head(s), clock) = "True"
         THEN <<Head(s)>> \o select_valid(Tail(s), clock)
         ELSE select_valid(Tail(s), clock)

incident_ids_of_valid(raw_incidents, clock) ==
    SeqIds(select_valid(raw_incidents, clock))

incident_ids_of_unprocessed(raw_incidents, clock) ==
    StoredIds \ processed

\* lines 75-88: the ids of the normalized canonical records of a batch
incident_ids(raw_incidents, clock) ==
    SeqIds(homogenize_incidents(remove_duplicates(select_valid(raw_incidents, clock))))

\* filter_and_clean_data, lines 75-101: validate, deduplicate, normalize and
\* flag in one UPDATE and commit; an exception of is_valid_incident ends the
\* stage with (0, 0)
CleanAndMark ==
    /\ pc = "clean"
    /\ LET raw_incidents == RowsOf(batch)
           raises == \E i \in 1..Len(batch) :
                         is_valid_incident(raw_incidents[i], now) = "AttributeError"
           filtered_incidents == select_valid(raw_incidents, now)
           deduplicated_incidents == remove_duplicates(filtered_incidents)
           homogenized_incidents == homogenize_incidents(deduplicated_incidents)
       IN IF raises
          THEN /\ pc' = "idle"
               /\ run' = IdleRun
               /\ hist' = Ended("clean error")
               /\ UNCHANGED processed
          ELSE /\ processed' = processed \cup incident_ids(raw_incidents, now)
               /\ run' = IF Len(homogenized_incidents) = 0 THEN IdleRun
                         ELSE [run EXCEPT !.total = Len(batch),
                                          !.filtered = Len(homogenized_incidents),
                                          !.unfetched = StoredIds \ (processed \cup
                                                            SeqIds(raw_incidents))]
               /\ pc' = IF Len(homogenized_incidents) = 0 THEN "idle" ELSE "export"
               /\ hist' = [IF Len(homogenized_incidents) = 0 THEN Ended("no data") ELSE hist
                           EXCEPT !.dropped = @ \cup (SeqIds(filtered_incidents)
                                                         \ SeqIds(deduplicated_incidents)),
                                  !.admitted = @ \cup SeqIds(deduplicated_incidents)]
    /\ batch' = <<>>
    /\ UNCHANGED fnVars
    /\ UNCHANGED <<feed, ticks, store, now, redis, files, api>>

TransactionFails_after_flagging ==
    /\ pc \in {"fetch", "clean"}
    /\ pc' = "idle"
    /\ processed' = processed \cup incident_ids(RowsOf(batch), now)
    /\ batch' = <<>>
    /\ run' = IdleRun
    /\ hist' = Ended("clean error")
    /\ UNCHANGED fnVars
    /\ UNCHANGED <<feed, ticks, store, now, redis, files, api>>

\* the SELECT, the UPDATE or the commit raises (lines 99-103): the
\* transaction is not committed and the stage returns (0, 0)
TransactionFails ==
    /\ pc \in {"fetch", "clean"}
    /\ pc' = "idle"
    /\ processed' = processed
    /\ batch' = <<>>
    /\ run' = IdleRun
    /\ hist' = Ended("clean error")
    /\ UNCHANGED fnVars
    /\ UNCHANGED <<feed, ticks, store, now, redis, files, api>>

\* the processor's process dies inside a run and is started again
Crash ==
    /\ pc # "idle"
    /\ pc' = "idle"
    /\ batch' = <<>>
    /\ run' = IdleRun
    /\ hist' = Ended("crashed")
    /\ UNCHANGED fnVars
    /\ UNCHANGED <<feed, ticks, store, processed, now, redis, files, api>>

\* export_for_pig_processing, lines 248-277: the rows as they are in the store
ExportForPig ==
    /\ pc = "export"
    /\ \E incidents \in ExportSelect(store, processed, ExportLimit) :
        IF incidents = <<>>
        THEN pc' = "idle" /\ run' = IdleRun /\ hist' = Ended("export failed")
        ELSE /\ pc' = "pig"
             /\ run' = [run EXCEPT !.exported = incidents]
             /\ hist' = hist
    /\ UNCHANGED fnVars
    /\ UNCHANGED <<feed, ticks, store, processed, now, batch, redis, files, api>>

\* run_pig_analysis, lines 285-319: the engine writes the result files it writes
RunPigSucceeds ==
    /\ pc = "pig"
    /\ \E written \in WrittenChoices :
        files' = [k \in PigKeys |-> IF k \in written THEN Some(SeqIds(RowsOf(run.exported)))
                                    ELSE None]
    /\ pc' = "cache"
    /\ UNCHANGED fnVars
    /\ UNCHANGED <<feed, ticks, store, processed, now, batch, run, redis, api, hist>>

RunPigFails_caches_last_update ==
    /\ pc = "pig"
    /\ pc' = "idle"
    /\ run' = IdleRun
    /\ hist' = Ended("pig failed")
    /\ redis' = Setex(redis, <<"analysis", "last_update">>, LastUpdateTTL, now)
    /\ UNCHANGED fnVars
    /\ UNCHANGED <<feed, ticks, store, processed, now, batch, files, api>>

\* staging or the engine fails (lines 295-297, 313-319) and the pipeline
\* returns (lines 451-453)
RunPigFails ==
    /\ pc = "pig"
    /\ pc' = "idle"
    /\ run' = IdleRun
    /\ hist' = Ended("pig failed")
    /\ UNCHANGED fnVars
    /\ UNCHANGED <<feed, ticks, store, processed, now, batch, redis, files, api>>

\* the cache writes of cache_analysis_results when those of `failing` raise:
\* each result key in its own try (lines 331-342), last_update in the outer
\* one (lines 344-351)
cache_writes_abort_on_error(failing) ==
    IF failing \cap ({k \in PigKeys : files[k] # None} \cup {"last_update"}) # {}
    THEN redis
    ELSE Setex([key \in RedisKeys |->
                   IF \E k \in PigKeys : key = AnalysisKey(k) /\ files[k] # None
                   THEN Some([value |-> Val(files[key[2]]), expires |-> now + AnalysisTTL])
                   ELSE redis[key]],
               <<"analysis", "last_update">>, LastUpdateTTL, now)

cache_writes(failing) ==
    LET results == [key \in RedisKeys |->
                       IF \E k \in PigKeys \ failing : key = AnalysisKey(k) /\ files[k] # None
                       THEN Some([value |-> Val(files[key[2]]),
                                  expires |-> now + AnalysisTTL])
                       ELSE redis[key]]
    IN IF "last_update" \in failing THEN results
       ELSE Setex(results, <<"analysis", "last_update">>, LastUpdateTTL, now)

\* cache_analysis_results, lines 321-351
CacheAnalysisResults ==
    /\ pc = "cache"
    /\ \E failing \in CacheFailChoices :
        /\ redis' = cache_writes(failing)
        /\ run' = [run EXCEPT !.cache_errors =
                       failing \cap ({k \in PigKeys : files[k] # None} \cup {"last_update"})]
    /\ pc' = "report"
    /\ UNCHANGED fnVars
    /\ UNCHANGED <<feed, ticks, store, processed, now, batch, files, api, hist>>

StoreReport_under_last_update ==
    /\ pc = "report"
    /\ redis' = Setex(redis, <<"analysis", "last_update">>, ReportTTL,
                      [total_records |-> run.total, filtered_records |-> run.filtered])
    /\ pc' = "idle"
    /\ run' = IdleRun
    /\ hist' = Ended("completed")
    /\ UNCHANGED fnVars
    /\ UNCHANGED <<feed, ticks, store, processed, now, batch, files, api>>

\* process_data_pipeline, lines 458-476: the run report
StoreReport ==
    /\ pc = "report"
    /\ redis' = Setex(redis, <<"processing", "last_report">>, ReportTTL,
                      [total_records |-> run.total, filtered_records |-> run.filtered])
    /\ pc' = "idle"
    /\ run' = IdleRun
    /\ hist' = Ended("completed")
    /\ UNCHANGED fnVars
    /\ UNCHANGED <<feed, ticks, store, processed, now, batch, files, api>>

StoreReportFails_rolls_back ==
    /\ pc = "report"
    /\ pc' = "idle"
    /\ run' = IdleRun
    /\ hist' = Ended("report error")
    /\ processed' = processed \ SeqIds(RowsOf(run.exported))
    /\ UNCHANGED fnVars
    /\ UNCHANGED <<feed, ticks, store, now, batch, redis, files, api>>

\* the setex of the report raises (lines 469-473) and the except of line 478
\* ends the run
StoreReportFails ==
    /\ pc = "report"
    /\ pc' = "idle"
    /\ run' = IdleRun
    /\ hist' = Ended("report error")
    /\ processed' = processed
    /\ UNCHANGED fnVars
    /\ UNCHANGED <<feed, ticks, store, now, batch, redis, files, api>>

\* api.py get_pig_results, lines 448-493
GetPigResults ==
    /\ LET cached_response == redis[<<"pig", "results">>]
           results == [k \in PigKeys |->
                          IF Live(AnalysisKey(k)) THEN Some(Val(redis[AnalysisKey(k)]).value)
                          ELSE None]
       IN IF cached_response # None
          THEN /\ api' = [at |-> Some(now), results |-> Val(cached_response).value]
               /\ redis' = redis
          ELSE /\ api' = [at |-> Some(now), results |-> results]
               /\ redis' = Setex(redis, <<"pig", "results">>, PigResultsTTL, results)
    /\ UNCHANGED fnVars
    /\ UNCHANGED <<feed, ticks, store, processed, now, pc, batch, run, files, hist>>

Init == PipelineInit(Feed) /\ FunctionsOff

\* the processor, from the scheduler's call to the return of the pipeline
Processor ==
    \/ StartPipeline
    \/ FetchUnprocessed
    \/ ConnectFails
    \/ CleanAndMark
    \/ TransactionFails
    \/ Crash
    \/ ExportForPig
    \/ RunPigSucceeds
    \/ RunPigFails
    \/ CacheAnalysisResults
    \/ StoreReport
    \/ StoreReportFails

\* scraper and processor over the store
Next == SaveIncident \/ Processor

Spec == Init /\ [][Next]_vars

\* the cache and its readers, as time passes
CacheFeed == {"a"}

CacheInit == PipelineInit(CacheFeed) /\ FunctionsOff

CacheNext == SaveIncident \/ Processor \/ Tick \/ GetPigResults

CacheSpec == CacheInit /\ [][CacheNext]_vars

\* api.py trigger_processing, lines 592-605: the request for a run is left
\* in Redis for 300 s and answered "Data processing triggered successfully"
TriggerProcessing ==
    /\ redis' = Setex(redis, <<"trigger", "processing">>, TriggerTTL, "requested")
    /\ UNCHANGED fnVars
    /\ UNCHANGED <<feed, ticks, store, processed, now, pc, batch, run, files, api, hist>>

\* the API's trigger, the processor and the clock
TriggerNext == SaveIncident \/ Processor \/ Tick \/ TriggerProcessing

TriggerSpec == CacheInit /\ [][TriggerNext]_vars

\* the orders in which fetch_waze_data can deliver the entries of the feed
FeedOrders(names) ==
    {b \in [1..Cardinality(names) -> names] : Range(b) = names}

\* scrape_and_store, lines 468-477: a cycle begins with the content of the feed
FetchWazeData ==
    /\ scr.pc = "idle"
    /\ scr.cycles < MaxCycles
    /\ \E incidents_data \in FeedOrders(feed) :
        scr' = [pc |-> "loop", todo |-> incidents_data, saved_count |-> 0,
                cycles |-> scr.cycles + 1, last |-> "none"]
    /\ UNCHANGED <<val, dup, dedup, csv, norm, exp>>
    /\ UNCHANGED <<feed, store, processed, now, ticks, pc, batch, run, redis, files, api,
                   hist>>

ScrapeIncident_counts_conflicts ==
    /\ scr.pc = "loop"
    /\ scr.todo # <<>>
    /\ LET incident == Head(scr.todo)
           id == IdOf(Incident[incident])
       IN \E connected \in BOOLEAN :
           /\ store' = IF connected /\ id \notin StoredIds THEN store \cup {incident}
                       ELSE store
           /\ redis' = IF connected THEN Setex(redis, IncidentKey(id), IncidentTTL, incident)
                       ELSE redis
           /\ scr' = [scr EXCEPT !.todo = Tail(@),
                                 !.saved_count = IF connected THEN @ + 1 ELSE @,
                                 !.last = IF connected THEN "saved" ELSE "failed"]
    /\ UNCHANGED <<val, dup, dedup, csv, norm, exp>>
    /\ UNCHANGED <<feed, processed, now, ticks, pc, batch, run, files, api, hist>>

\* scrape_and_store, lines 479-484, on one entry of the feed: save_incident
\* (lines 420-454) inserts the row unless its incident_id is stored and
\* returns rowcount > 0, or returns False without a connection; when it
\* returned True the incident is cached (lines 456-466) and counted
ScrapeIncident ==
    /\ scr.pc = "loop"
    /\ scr.todo # <<>>
    /\ LET incident == Head(scr.todo)
           id == IdOf(Incident[incident])
       IN \E connected \in BOOLEAN :
           LET saved == connected /\ id \notin StoredIds IN
           /\ store' = IF saved THEN store \cup {incident} ELSE store
           /\ redis' = IF saved THEN Setex(redis, IncidentKey(id), IncidentTTL, incident)
                       ELSE redis
           /\ scr' = [scr EXCEPT !.todo = Tail(@),
                                 !.saved_count = IF saved THEN @ + 1 ELSE @,
                                 !.last = IF saved THEN "saved"
                                          ELSE IF connected THEN "exists" ELSE "failed"]
    /\ UNCHANGED <<val, dup, dedup, csv, norm, exp>>
    /\ UNCHANGED <<feed, processed, now, ticks, pc, batch, run, files, api, hist>>

\* scrape_and_store, lines 486-492: the metrics of the cycle
UpdateMetrics ==
    /\ scr.pc = "loop"
    /\ scr.todo = <<>>
    /\ redis' = Setex(Setex(redis, <<"scraper", "last_run">>, ScraperTTL, now),
                      <<"scraper", "incidents_saved">>, ScraperTTL, scr.saved_count)
    /\ scr' = [scr EXCEPT !.pc = "idle"]
    /\ UNCHANGED <<val, dup, dedup, csv, norm, exp>>
    /\ UNCHANGED <<feed, store, processed, now, ticks, pc, batch, run, files, api, hist>>

\* the scraper's cycles over a feed whose content stays the same
ScrapeInit ==
    /\ PipelineInit(Feed)
    /\ scr = [pc |-> "idle", todo |-> <<>>, saved_count |-> 0, cycles |-> 0,
              last |-> "none"]
    /\ val = Off /\ dup = Off /\ dedup = Off /\ csv = Off /\ norm = Off /\ exp = Off

ScrapeNext == FetchWazeData \/ ScrapeIncident \/ UpdateMetrics

ScrapeSpec == ScrapeInit /\ [][ScrapeNext]_vars

\* the feed delivers reports the validator rejects
RejectFeed == {"a", "e", "s"}

RejectInit == PipelineInit(RejectFeed) /\ FunctionsOff

RejectSpec == RejectInit /\ [][Next]_vars

\* the feed delivers entries with null fields
NullFeed == {"a", "n", "d"}

NullInit == PipelineInit(NullFeed) /\ FunctionsOff

NullSpec == NullInit /\ [][Next]_vars

(***************************************************************************)
(* The functions on their own: each specification draws the inputs of one  *)
(* function and applies it, the pipeline standing still                    *)
(***************************************************************************)
PipelineStill ==
    UNCHANGED <<feed, store, processed, now, ticks, pc, batch, run, redis, files, api, hist>>

\* is_valid_incident
Validate ==
    /\ val.pc = "input"
    /\ val' = [val EXCEPT !.pc = "done",
                          !.result = is_valid_incident(val.incident, val.clock)]
    /\ UNCHANGED <<dup, dedup, csv, norm, exp, scr>>
    /\ PipelineStill

ValidInit ==
    /\ PipelineInit({})
    /\ val \in {[pc |-> "input", incident |-> i, clock |-> ValNow, result |-> ""] :
                  i \in ValInputs}
    /\ dup = Off /\ dedup = Off /\ csv = Off /\ norm = Off /\ exp = Off /\ scr = Off

ValidSpec == ValidInit /\ [][Validate]_vars

\* are_incidents_duplicate
CompareIncidents ==
    /\ dup.pc = "input"
    /\ dup' = [dup EXCEPT !.pc = "done",
                          !.result = are_incidents_duplicate(dup.inc1, dup.inc2)]
    /\ UNCHANGED <<val, dedup, csv, norm, exp, scr>>
    /\ PipelineStill

DupInit ==
    /\ PipelineInit({})
    /\ dup \in {[pc |-> "input", inc1 |-> a, inc2 |-> b, result |-> FALSE] :
                  a \in DupInputs, b \in DupInputs}
    /\ val = Off /\ dedup = Off /\ csv = Off /\ norm = Off /\ exp = Off /\ scr = Off

DupSpec == DupInit /\ [][CompareIncidents]_vars

\* remove_duplicates, and homogenize_incidents on what it returns (lines 82-85)
Deduplicate ==
    /\ dedup.pc = "input"
    /\ dedup' = [dedup EXCEPT !.pc = "done",
                              !.output = remove_duplicates(dedup.input),
                              !.normalized =
                                  homogenize_incidents(remove_duplicates(dedup.input))]
    /\ UNCHANGED <<val, dup, csv, norm, exp, scr>>
    /\ PipelineStill

DedupInit ==
    /\ PipelineInit({})
    /\ dedup \in {[pc |-> "input", input |-> b, output |-> <<>>, normalized |-> <<>>] :
                    b \in DistinctBatches(DedupRecords, MaxBatch)}
    /\ val = Off /\ dup = Off /\ csv = Off /\ norm = Off /\ exp = Off /\ scr = Off

DedupSpec == DedupInit /\ [][Deduplicate]_vars

\* the export of a row and its reading back
WriteRow ==
    /\ csv.pc = "input"
    /\ csv' = [csv EXCEPT !.pc = "written", !.line = export_row(csv.row)]
    /\ UNCHANGED <<val, dup, dedup, norm, exp, scr>>
    /\ PipelineStill

ReadRow ==
    /\ csv.pc = "written"
    /\ csv' = [csv EXCEPT !.pc = "read", !.parsed = parse_row(csv.line)]
    /\ UNCHANGED <<val, dup, dedup, norm, exp, scr>>
    /\ PipelineStill

CsvInit ==
    /\ PipelineInit({})
    /\ csv \in {[pc |-> "input", row |-> r, line |-> <<>>, parsed |-> <<>>] :
                  r \in CsvInputs}
    /\ val = Off /\ dup = Off /\ dedup = Off /\ norm = Off /\ exp = Off /\ scr = Off

CsvNext == WriteRow \/ ReadRow

CsvSpec == CsvInit /\ [][CsvNext]_vars

\* homogenize_incidents
Normalize ==
    /\ norm.pc = "input"
    /\ norm' = [norm EXCEPT !.pc = "done", !.output = homogenize_incidents(norm.input)]
    /\ UNCHANGED <<val, dup, dedup, csv, exp, scr>>
    /\ PipelineStill

\* homogenize_incidents on the list it returned
NormalizeAgain ==
    /\ norm.pc = "done"
    /\ norm' = [norm EXCEPT !.pc = "again", !.again = homogenize_incidents(norm.output)]
    /\ UNCHANGED <<val, dup, dedup, csv, exp, scr>>
    /\ PipelineStill

NormInit ==
    /\ PipelineInit({})
    /\ norm \in {[pc |-> "input", input |-> l, output |-> <<>>, again |-> <<>>] :
                   l \in NormLists}
    /\ val = Off /\ dup = Off /\ dedup = Off /\ csv = Off /\ exp = Off /\ scr = Off

NormNext == Normalize \/ NormalizeAgain

NormSpec == NormInit /\ [][NormNext]_vars

\* the LIMIT of the export: the program's, and two that the rows of the
\* table exceed
ExportLimits == {1, 2, ExportLimit}

\* the states of the store the export can be applied to: rows of distinct
\* incident_id, some of them flagged processed
ExportInputs ==
    {[pc |-> "input", stored |-> st, flagged |-> fl, limit |-> n, artifact |-> None,
      outcome |-> ""] :
        st \in SUBSET {"a", "b", "c", "e", "n", "d"},
        fl \in SUBSET {"A", "B", "C", "E", "N", "D"},
        n \in ExportLimits}

\* export_for_pig_processing (lines 243-283): the artifact, or none (the
\* function returns "")
Export ==
    /\ exp.pc = "input"
    /\ \E incidents \in ExportSelect(exp.stored, exp.flagged, exp.limit) :
        exp' = [exp EXCEPT !.pc = "exported",
                           !.artifact = IF incidents = <<>> THEN None ELSE Some(incidents)]
    /\ UNCHANGED <<val, dup, dedup, csv, norm, scr>>
    /\ PipelineStill

\* process_data_pipeline, lines 442-446, on what the export returned
HandleExport ==
    /\ exp.pc = "exported"
    /\ exp' = [exp EXCEPT !.pc = "done",
                          !.outcome = IF exp.artifact = None THEN "export failed"
                                      ELSE "exported"]
    /\ UNCHANGED <<val, dup, dedup, csv, norm, scr>>
    /\ PipelineStill

ExportInit ==
    /\ PipelineInit({})
    /\ exp \in {x \in ExportInputs :
                  x.flagged \subseteq {IdOf(Incident[r]) : r \in x.stored}}
    /\ val = Off /\ dup = Off /\ dedup = Off /\ csv = Off /\ norm = Off /\ scr = Off

ExportNext == Export \/ HandleExport

ExportSpec == ExportInit /\ [][ExportNext]_vars

(***************************************************************************)
(* Claims                                                                  *)
(***************************************************************************)

\* C1 (as claimed): a record that remove_duplicates dropped as a duplicate of
\* an admitted record is never flagged processed = TRUE, in that run or later.
C1_DroppedNeverProcessed == hist.dropped \cap processed = {}

\* C2 (as claimed): a read through get_pig_results behaves as a miss for every
\* analysis key that has expired: the answer holds no content for it.  (No
\* key is removed but by expiry, so a key that is not live at the time of
\* the last answer was not live when the answer was given.)
C2_ExpiredReadsAsMiss ==
    api.at = Some(now) =>
        \A k \in PigKeys : ~Live(AnalysisKey(k)) => api.results[k] = None

\* C3 (as claimed): every row export_for_pig_processing serializes has an
\* incident_type of the closed category set and a severity of at most 10.
C3_ExportedRowsNormalized ==
    \A i \in 1..Len(run.exported) :
        /\ Incident[run.exported[i]].incident_type \subseteq CategorySet
        /\ \A sev \in Incident[run.exported[i]].severity : sev <= MaxSeverity

\* C4 (as claimed): the description and street written by the export, read
\* back by a CSV reader, are the original strings.
C4_ExportRoundTrip ==
    (csv.pc = "read" /\ csv.row.description # None)
        => csv.parsed = <<Val(csv.row.description), Val(csv.row.street)>>

\* C5: for two records of the same type, are_incidents_duplicate is true
\* exactly when the latitudes and the longitudes differ by at most D and the
\* timestamps by at most T.
C5_DuplicateThresholds ==
    (dup.pc = "done" /\ dup.inc1.incident_type = dup.inc2.incident_type)
        => (dup.result <=>
               /\ Abs(Val(dup.inc1.latitude) - Val(dup.inc2.latitude))
                      <= duplicate_distance_threshold
               /\ Abs(Val(dup.inc1.longitude) - Val(dup.inc2.longitude))
                      <= duplicate_distance_threshold
               /\ Abs(TsKey(dup.inc1) - TsKey(dup.inc2)) <= duplicate_time_threshold)

\* two records of the same type exactly D and T apart were found duplicates
C5_Witness ==
    /\ dup.pc = "done"
    /\ dup.result
    /\ Val(dup.inc1.latitude) - Val(dup.inc2.latitude) = duplicate_distance_threshold
    /\ Val(dup.inc2.longitude) - Val(dup.inc1.longitude) = duplicate_distance_threshold
    /\ TsKey(dup.inc1) - TsKey(dup.inc2) = duplicate_time_threshold

PermutationsOf(s) ==
    {[i \in 1..Len(s) |-> s[f[i]]] : f \in Permutations(1..Len(s))}

\* no two records of the batch with the same timestamp are duplicates of each other
NoTiedDuplicates(b) ==
    \A i, j \in 1..Len(b) :
        (i # j /\ TsKey(b[i]) = TsKey(b[j])) => ~are_incidents_duplicate(b[i], b[j])

\* C6 (as claimed): every permutation of a batch gives the same admitted ids
\* (and so the same dropped ids).
C6_OrderIndependent ==
    dedup.pc = "done" =>
        \A p \in PermutationsOf(dedup.input) :
            SeqIds(remove_duplicates(p)) = SeqIds(dedup.output)

\* C6 (amended): the same, for the batches in which no two records with the
\* same timestamp are duplicates of each other.
C6_OrderIndependentWithoutTies ==
    (dedup.pc = "done" /\ NoTiedDuplicates(dedup.input)) =>
        \A p \in PermutationsOf(dedup.input) :
            SeqIds(remove_duplicates(p)) = SeqIds(dedup.output)

\* a batch of three fetched latest first, without tied duplicates, one dropped
C6_Witness ==
    /\ dedup.pc = "done"
    /\ NoTiedDuplicates(dedup.input)
    /\ Len(dedup.input) = 3
    /\ TsKey(dedup.input[1]) > TsKey(dedup.input[2])
    /\ TsKey(dedup.input[2]) > TsKey(dedup.input[3])
    /\ Len(dedup.output) = 2

\* C7: every dropped record is a duplicate of an admitted record that is not
\* later than it, and the output holds only records of the input, unchanged.
C7_DroppedHaveEarlierCanonical ==
    dedup.pc = "done" =>
        /\ \A r \in Range(dedup.input) \ Range(dedup.output) :
               \E c \in Range(dedup.output) :
                   are_incidents_duplicate(r, c) /\ TsKey(c) <= TsKey(r)
        /\ Range(dedup.output) \subseteq Range(dedup.input)

\* a record fetched before its earlier duplicate was dropped
C7_Witness ==
    /\ dedup.pc = "done"
    /\ Len(dedup.input) >= 2
    /\ dedup.input[1] \notin Range(dedup.output)
    /\ dedup.input[2] \in Range(dedup.output)

PastWindow(incident, clock) ==
    /\ incident.timestamp # None
    /\ as_time(Val(incident.timestamp)) # None
    /\ clock - Val(as_time(Val(incident.timestamp))) > MaxAgeDays * SecondsPerDay

\* C9 (as claimed): a record whose age is strictly greater than 7 days is
\* reported invalid.
C9_RejectsPastWindow ==
    (val.pc = "done" /\ PastWindow(val.incident, val.clock)) => val.result # "True"

AnyRequiredEmpty(incident) ==
    \/ incident.incident_id \in {None, Some("")}
    \/ incident.incident_type \in {None, Some("")}
    \/ incident.latitude \in {None, Some(0)}
    \/ incident.longitude \in {None, Some(0)}
    \/ incident.timestamp \in {None, Some(IsoText(""))}

OutsideBox(incident) ==
    \/ \E lat \in incident.latitude : lat < LatMin \/ lat > LatMax
    \/ \E lon \in incident.longitude : lon < LonMin \/ lon > LonMax

ShortDescription(incident) ==
    \E d \in incident.description : Len(strip(d)) < MinDescriptionLen

\* C10: a record with a required field missing or empty, a coordinate
\* outside the box or a trimmed description under 3 characters is rejected;
\* a record that passes these, has a description, and whose timestamp
\* parses and is at most 7 days old is accepted.
C10_ValidatorContract ==
    val.pc = "done" =>
        /\ (\/ AnyRequiredEmpty(val.incident)
            \/ OutsideBox(val.incident)
            \/ ShortDescription(val.incident)) => val.result = "False"
        /\ (/\ ~AnyRequiredEmpty(val.incident)
            /\ ~OutsideBox(val.incident)
            /\ val.incident.description # None
            /\ ~ShortDescription(val.incident)
            /\ as_time(Val(val.incident.timestamp)) # None
            /\ ~PastWindow(val.incident, val.clock)) => val.result = "True"

\* a record on the edge of the box whose only fault is a two-letter
\* description was rejected
C10_Witness ==
    /\ val.pc = "done"
    /\ val.result = "False"
    /\ ~AnyRequiredEmpty(val.incident)
    /\ val.incident.latitude = Some(LatMax)
    /\ ~OutsideBox(val.incident)
    /\ ShortDescription(val.incident)
    /\ ~PastWindow(val.incident, val.clock)

\* C11: is_valid_incident returns true or false for every fetched record, a
\* record whose description is NULL included; it never raises.
C11_ValidatorTotal ==
    val.pc = "done" => val.result \in {"True", "False"}

\* the timestamp is a text that is no ISO-8601 point in time
UnparsableTimestamp(incident) ==
    /\ incident.timestamp # None
    /\ Val(incident.timestamp).kind = "str"
    /\ Val(incident.timestamp).text \notin {"2025-06-01T00:00:00Z", "2025-05-20T00:00:00Z"}

\* C12: a record whose timestamp cannot be parsed is never accepted, and
\* when its description is present the validator returns false for it.
C12_UnparsableRejected ==
    (val.pc = "done" /\ UnparsableTimestamp(val.incident)) =>
        /\ val.result # "True"
        /\ val.incident.description # None => val.result = "False"

\* a record that is valid but for its timestamp "ayer" has been rejected
C12_Witness ==
    /\ val.pc = "done"
    /\ val.incident.timestamp = Some(IsoText("ayer"))
    /\ val.incident.incident_id = Some("i1")
    /\ val.incident.incident_type = Some("accidente")
    /\ val.incident.latitude = Some(BaseLat)
    /\ val.incident.longitude = Some(LonMin)
    /\ val.incident.description = Some(Text3)
    /\ val.result = "False"

\* C13: every record the deduplicator admitted as canonical in a run is
\* flagged processed by that run (the normalizer returns a record for each).
C13_CanonicalFlagged ==
    hist.admitted \subseteq processed

\* the normalizer was given one record and returned one
NormalizedOne ==
    norm.pc = "done" /\ Len(norm.input) = 1 /\ Len(norm.output) = 1

\* C14: the normalized severity is min(raw // 10, 10) when raw > 10 and raw
\* otherwise; 47 becomes 4, 999 becomes 10, and it never exceeds 10.
C14_SeverityRescale ==
    NormalizedOne =>
        LET raw == Val(norm.input[1].severity)
            out == Val(norm.output[1].severity)
        IN /\ raw > 10 => out = (IF raw \div 10 < 10 THEN raw \div 10 ELSE 10)
           /\ raw <= 10 => out = raw
           /\ raw = 47 => out = 4
           /\ raw = 999 => out = 10
           /\ out <= 10

\* raw severity 999 has been normalized to 10
C14_Witness ==
    /\ NormalizedOne
    /\ norm.input[1].severity = Some(999)
    /\ norm.output[1].severity = Some(10)

\* C15: the normalized incident_type is in the closed category set; a type
\* whose lower-cased form is in the mapping table gets its tag, every other
\* type gets the generic tag OTRO.
C15_TypeInClosedSet ==
    NormalizedOne =>
        LET raw == Val(norm.input[1].incident_type)
            out == Val(norm.output[1].incident_type)
        IN /\ out \in {"ACCIDENTE", "ATASCO", "CONSTRUCCION", "PELIGRO", "CLIMA",
                       "ALERTA", "OTRO"}
           /\ lower(raw) \in DOMAIN type_mapping => out = type_mapping[lower(raw)]
           /\ lower(raw) \notin DOMAIN type_mapping => out = "OTRO"

\* a type the table does not know has become OTRO
C15_Witness ==
    /\ NormalizedOne
    /\ norm.input[1].incident_type = Some("Policia")
    /\ norm.output[1].incident_type = Some("OTRO")

\* C16: a comuna whose lower-cased, trimmed form is in the mapping table
\* becomes the canonical name, an unmapped non-empty comuna is returned as it
\* was given, and an empty comuna stays empty.
C16_ComunaMapping ==
    NormalizedOne =>
        LET raw == Val(norm.input[1].comuna)
            out == Val(norm.output[1].comuna)
        IN /\ lower_strip(raw) \in DOMAIN comuna_mapping
                => out = comuna_mapping[lower_strip(raw)]
           /\ (lower_strip(raw) \notin DOMAIN comuna_mapping /\ raw # "") => out = raw
           /\ raw = "" => out = ""

\* an unmapped comuna with a leading blank has been returned as given
C16_Witness ==
    /\ NormalizedOne
    /\ norm.input[1].comuna = Some(" Quilicura")
    /\ norm.output[1].comuna = Some(" Quilicura")

\* C17: the normalized description is non-empty: the trimmed input when that
\* is non-empty, otherwise a placeholder that contains the normalized type tag.
C17_DescriptionNonEmpty ==
    NormalizedOne =>
        LET raw == Val(norm.input[1].description)
            out == Val(norm.output[1].description)
            tag == Val(norm.output[1].incident_type)
        IN /\ out # <<>>
           /\ strip(raw) # <<>> => out = strip(raw)
           /\ strip(raw) = <<>> => \E i \in 1..Len(out) : out[i] = tag

\* a blank description has been replaced by the placeholder of an accident
C17_Witness ==
    /\ NormalizedOne
    /\ norm.input[1].description = Some(<<" ">>)
    /\ norm.input[1].incident_type = Some("accidente")
    /\ norm.output[1].description = Some(<<"Incidente de tipo ", "ACCIDENTE">>)

\* C18: every invocation of process_data_pipeline that has returned stored a
\* run report under processing:last_report.
C18_EveryRunReports ==
    hist.last # "none" =>
        hist.last = "completed" /\ Live(<<"processing", "last_report">>)

\* C19: the step in which staging or the engine fails writes no cache key and
\* clears no processed flag, and no step of the processor that leads to an
\* earlier stage of a run (fetch, clean, export, the engine) writes a cache
\* key: a run that fails in the engine has written none.
C19_EngineFailureWritesNothing ==
    [][/\ (pc = "pig" /\ pc' = "idle") => (redis' = redis /\ processed \subseteq processed')
       /\ (pc' # pc /\ pc' \in {"fetch", "clean", "export", "pig"}) => redis' = redis]_vars

\* a run has flagged records and then failed in the engine, after an earlier
\* run had cached results
C19_Witness ==
    /\ hist.last = "pig failed"
    /\ pc = "idle"
    /\ processed # {}
    /\ Live(<<"analysis", "last_update">>)

\* C20: the run that follows a run which flagged records and then failed in
\* the engine does not return with "no data to process": it exports again.
C20_FailedRunIsReExported ==
    [][~(hist.last = "pig failed" /\ hist'.last = "no data")]_vars

\* C21: after a completed run in which a result artifact is missing, the
\* cache key of that result is absent, whatever an earlier run cached there.
C21_MissingArtifactReadsAbsent ==
    (hist.last = "completed" /\ pc = "idle") =>
        \A k \in PigKeys : files[k] = None => ~Live(AnalysisKey(k))

\* C22: when the write of one result key fails in cache_analysis_results,
\* every other result key whose artifact exists is written with the
\* artifact's content, and the run goes on to the report stage.
C22_CacheFailureIsPerKey ==
    [][(pc = "cache" /\ pc' # pc /\ hist' = hist) =>
          /\ pc' = "report"
          /\ \A k \in PigKeys \ run'.cache_errors :
                 files[k] # None =>
                     redis'[AnalysisKey(k)] =
                         Some([value |-> Val(files[k]), expires |-> now + 3600])]_vars

\* the write of hotspots failed, type_counts was written, the run is at the
\* report stage
C22_Witness ==
    /\ pc = "report"
    /\ run.cache_errors = {"hotspots"}
    /\ files["hotspots"] # None
    /\ ~Live(AnalysisKey("hotspots"))
    /\ Live(AnalysisKey("type_counts"))

\* C23: a read of the analysis results answers "not available" for every
\* result whose cache key is missing at the time of the read, and it
\* recomputes nothing: it leaves the result files, the analysis keys and the
\* processor where they are.
C23_MissIsNotAvailable ==
    [][api' # api =>
          /\ \A k \in PigKeys : ~Live(AnalysisKey(k)) => api'.results[k] = None
          /\ \A k \in PigKeys : redis'[AnalysisKey(k)] = redis[AnalysisKey(k)]
          /\ files' = files
          /\ pc' = pc]_vars

\* C24: at most one invocation of process_data_pipeline has not returned.
C24_OneRunInFlight ==
    /\ hist.inflight <= 1
    /\ hist.inflight = 0 <=> pc = "idle"

\* an invocation is in flight after an earlier one has returned
C24_Witness ==
    /\ hist.inflight = 1
    /\ hist.last = "completed"
    /\ pc = "clean"

\* a cache write of the run fails in this step: a result key or last_update
\* in cache_analysis_results, or the run report
CacheWriteFails ==
    \/ pc = "cache" /\ pc' = "report" /\ run'.cache_errors # {}
    \/ pc = "report" /\ pc' = "idle" /\ hist'.last = "report error"
                     /\ hist'.inflight < hist.inflight

\* C25: a failed cache write of a run changes no row and no processed flag.
C25_CacheFailureKeepsFlags ==
    [][CacheWriteFails => (processed' = processed /\ store' = store)]_vars

\* the report of a run that flagged records could not be stored
C25_Witness ==
    /\ hist.last = "report error"
    /\ pc = "idle"
    /\ processed # {}

\* C26: when the connection or the transaction fails in the filter-and-clean
\* stage, the run ends there: no processed flag changes, nothing is exported
\* or cached, and the unprocessed rows are the same for the next run.
C26_StoreFailureLeavesStage ==
    [][(/\ pc \in {"fetch", "clean"}
        /\ hist'.inflight < hist.inflight
        /\ hist'.last \in {"no connection", "clean error"}) =>
          /\ pc' = "idle"
          /\ processed' = processed
          /\ store' = store
          /\ redis' = redis
          /\ files' = files]_vars

\* a run ended on a failed transaction with rows stored and none flagged
C26_Witness ==
    /\ hist.last = "clean error"
    /\ pc = "idle"
    /\ store # {}
    /\ processed = {}

\* C27: the processed flags change in one step only, the one that ends the
\* clean stage, and the ids newly flagged there are exactly the ids of the
\* normalized canonical records of the run's batch.
C27_FlaggingIsAtomic ==
    [][processed' # processed =>
          /\ pc = "clean"
          /\ processed' = processed \cup
                 SeqIds(homogenize_incidents(remove_duplicates(
                            select_valid(RowsOf(batch), now))))]_vars

\* a run whose batch held a record and its duplicate has flagged the
\* canonical one only
C27_Witness ==
    /\ pc = "export"
    /\ processed = {"A"}
    /\ hist.dropped = {"B"}

\* C28: no step deletes a row or clears a processed flag, and the stored
\* rows have distinct incident_ids.
C28_StoreOnlyGrows ==
    [][/\ store \subseteq store'
       /\ processed \subseteq processed'
       /\ \A m, n \in store' : IdOf(Incident[m]) = IdOf(Incident[n]) => m = n]_vars

\* save_incident has met a stored and processed incident_id
C28_Witness ==
    /\ hist.saved = "conflict"
    /\ store = {"a"}
    /\ processed = {"A"}

\* C29: the artifact holds processed rows only, at most LIMIT of them, each
\* once, most recent first, and no processed row left out is more recent
\* than a row it holds.
C29_ExportSelection ==
    (exp.pc # "input" /\ exp.artifact # None) =>
        LET rows == Val(exp.artifact)
            eligible == {r \in exp.stored : IdOf(Incident[r]) \in exp.flagged}
        IN /\ Range(rows) \subseteq eligible
           /\ Len(rows) <= exp.limit
           /\ Len(rows) = Min(Cardinality(eligible), exp.limit)
           /\ Cardinality(Range(rows)) = Len(rows)
           /\ \A i, j \in 1..Len(rows) :
                  i < j => TsKey(Incident[rows[i]]) >= TsKey(Incident[rows[j]])
           /\ \A r \in eligible \ Range(rows) : \A i \in 1..Len(rows) :
                  TsKey(Incident[r]) <= TsKey(Incident[rows[i]])

\* the limit cut the export of three processed rows, an unprocessed row
\* being stored
C29_Witness ==
    /\ exp.pc = "exported"
    /\ exp.limit = 2
    /\ exp.stored = {"a", "b", "c", "e"}
    /\ exp.flagged = {"A", "B", "C"}
    /\ exp.artifact # None
    /\ Len(Val(exp.artifact)) = 2

ReturnsFromReport ==
    /\ pc = "report"
    /\ hist'.inflight < hist.inflight
    /\ hist'.last \in {"completed", "report error"}

\* the report of the run in flight, as stored with SETEX at this moment
ReportEntry ==
    Some([value |-> [total_records |-> run.total, filtered_records |-> run.filtered],
          expires |-> now + 3600])

DifferInCaseOnly(x, y) ==
    /\ Val(x.incident_type) # Val(y.incident_type)
    /\ lower(Val(x.incident_type)) = lower(Val(y.incident_type))
    /\ x.latitude = y.latitude
    /\ x.longitude = y.longitude
    /\ x.timestamp = y.timestamp

\* the normalized record of the raw record x in a normalized list
NormalizedOf(x, normalized) ==
    {h \in Range(normalized) : h.incident_id = x.incident_id}

\* C32: of two records of a batch with the same place and time whose raw types
\* differ in letter case only, neither is dropped because of the other: when
\* the batch holds no third record that is a duplicate of one of them,
\* remove_duplicates admits both, and homogenize_incidents gives both the
\* same incident_type.
C32_CaseDiffersNotDuplicate ==
    dedup.pc = "done" =>
        \A x, y \in Range(dedup.input) :
            (/\ DifferInCaseOnly(x, y)
             /\ \A z \in Range(dedup.input) \ {x, y} :
                    ~are_incidents_duplicate(z, x) /\ ~are_incidents_duplicate(z, y)) =>
                /\ x \in Range(dedup.output)
                /\ y \in Range(dedup.output)
                /\ \A hx \in NormalizedOf(x, dedup.normalized),
                      hy \in NormalizedOf(y, dedup.normalized) :
                       hx.incident_type = hy.incident_type
                /\ NormalizedOf(x, dedup.normalized) # {}
                /\ NormalizedOf(y, dedup.normalized) # {}

\* a batch of two such records has been deduplicated and normalized
C32_Witness ==
    /\ dedup.pc = "done"
    /\ Len(dedup.input) = 2
    /\ DifferInCaseOnly(dedup.input[1], dedup.input[2])
    /\ Len(dedup.output) = 2
    /\ Len(dedup.normalized) = 2
    /\ dedup.normalized[1].incident_type = Some("ACCIDENTE")
    /\ dedup.normalized[2].incident_type = Some("ACCIDENTE")

\* C33 (as claimed): the request that POST /api/trigger/processing leaves
\* under trigger:processing is consumed by the processor before it expires:
\* the key leaves Redis in no step but one that starts a run.
C33_TriggerIsConsumed ==
    [][(Live(<<"trigger", "processing">>) /\ redis'[<<"trigger", "processing">>] = None)
          => (pc = "idle" /\ pc' = "fetch")]_vars

\* C34 (as claimed): a GET /api/pig/results returns, for every analysis key
\* that is live, the content the key holds at that time, whatever earlier
\* reads returned.
C34_ReadReturnsCurrentContent ==
    [][api' # api =>
          \A k \in PigKeys :
              Live(AnalysisKey(k)) =>
                  api'.results[k] = Some(Val(redis[AnalysisKey(k)]).value)]_vars

\* C35: every id a run flags belongs to a record of its batch that
\* is_valid_incident accepted in that run, and no record of the batch that
\* the validator rejected is flagged by it.
C35_FlaggedWereValid ==
    [][processed' # processed =>
          LET raw_incidents == RowsOf(batch) IN
          /\ \A id \in processed' \ processed :
                 \E i \in 1..Len(raw_incidents) :
                     /\ IdOf(raw_incidents[i]) = id
                     /\ is_valid_incident(raw_incidents[i], now) = "True"
          /\ \A i \in 1..Len(raw_incidents) :
                 is_valid_incident(raw_incidents[i], now) # "True" =>
                     IdOf(raw_incidents[i]) \notin processed']_vars

\* a run whose batch held a valid record and two rejected ones has flagged
\* the valid one
C35_Witness ==
    /\ pc = "export"
    /\ run.total = 3
    /\ run.filtered = 1
    /\ store = {"a", "e", "s"}
    /\ processed = {"A"}

\* C36: a run flags only ids of rows it fetched: a row that is stored and
\* unprocessed but is not in the run's batch when the run flags is still
\* unprocessed after it.
C36_LateInsertNotFlagged ==
    [][processed' # processed =>
          /\ processed' \ processed \subseteq SeqIds(RowsOf(batch))
          /\ \A n \in store :
                 (n \notin Range(batch) /\ IdOf(Incident[n]) \notin processed) =>
                     IdOf(Incident[n]) \notin processed']_vars

\* a run has flagged the record it fetched while a record inserted after its
\* fetch was stored, and that record is unprocessed
C36_Witness ==
    /\ pc = "export"
    /\ run.total = 1
    /\ run.unfetched = {"B"}
    /\ processed = {"A"}

C38_PlaceholderNeverTaken ==
    [][(pc = "clean" /\ pc' # pc) =>
          LET deduplicated_incidents ==
                  remove_duplicates(select_valid(RowsOf(batch), now))
          IN \A i \in 1..Len(deduplicated_incidents) :
                 LET incident == deduplicated_incidents[i] IN
                 /\ incident.description # None
                 /\ strip(Val(incident.description)) # <<>>
                 /\ Len(strip(Val(incident.description))) >= 3
                 /\ homogenize_raises(incident) \/
                        homogenize_one(incident).description =
                            Some(strip(Val(incident.description)))]_vars

\* a run whose batch held a report with an empty description, a report with
\* a description of two characters and a valid report has normalized one
\* record
C38_Witness ==
    /\ pc = "export"
    /\ run.total = 3
    /\ run.filtered = 1
    /\ "S" \in StoredIds \ processed
    /\ "E" \in StoredIds \ processed
    /\ "A" \in processed
    /\ run.unfetched = {}

\* C39: homogenize_incidents applied to a list it returned returns a list of
\* the same length whose records have the same incident_type, comuna,
\* description and severity.
C39_HomogenizeIdempotent ==
    norm.pc = "again" =>
        /\ Len(norm.again) = Len(norm.output)
        /\ \A i \in 1..Len(norm.output) :
               /\ norm.again[i].incident_type = norm.output[i].incident_type
               /\ norm.again[i].comuna = norm.output[i].comuna
               /\ norm.again[i].description = norm.output[i].description
               /\ norm.again[i].severity = norm.output[i].severity

\* a record that the first pass changed in its four fields has been
\* normalized twice
C39_Witness ==
    /\ norm.pc = "again"
    /\ Len(norm.input) = 1
    /\ norm.input[1].incident_type = Some("Accidente")
    /\ norm.input[1].comuna = Some("Maipu")
    /\ norm.input[1].description = Some(<<" ", "a", " ">>)
    /\ norm.input[1].severity = Some(100)
    /\ norm.output[1].incident_type = Some("ACCIDENTE")
    /\ norm.output[1].comuna = Some("Maipú")
    /\ norm.output[1].description = Some(<<"a">>)
    /\ norm.output[1].severity = Some(10)
    /\ Len(norm.again) = 1

====
